---- MODULE Spec2Model ----
(***************************************************************************)
(* Ticket triage pipeline of the AI customer-support backend: the routing  *)
(* and escalation policy (services/router.py), the reply confidence        *)
(* heuristic (services/reply_generator.py) and the ticket endpoints        *)
(* (api/tickets.py) over the ticket table and the Gmail inbox.             *)
(*                                                                         *)
(* Confidence scores and thresholds are floats in [0.0, 1.0] in the code.  *)
(* Here they are fixed-point integers in units of 0.05: One = 20 is 1.0,   *)
(* 16 is 0.8, 12 is 0.6, 17 is 0.85.  Every literal of the code (0.85,     *)
(* 0.2, 0.15, 0.1, 0.8, 0.6) is a multiple of 0.05, and the code only      *)
(* subtracts, compares and takes min/max of these values.                  *)
(*                                                                         *)
(* A team name is a Python string built with f-strings; it is modelled as  *)
(* the sequence of its pieces, e.g. <<"Tech Support", " - ESCALATED">>.    *)
(***************************************************************************)
EXTENDS Integers, Sequences, FiniteSets, TLC

VARIABLES
    settings,   \* config.py: the Settings object, read once at start-up
    call,       \* the last evaluation of a router function, with its result
    inbox,      \* Gmail: the number of unread messages (ids 1..inbox)
    tickets,    \* the tickets table, in insertion order (id = position)
    outbox,     \* Gmail: per ticket, the number of replies sent for it
    response    \* the last HTTP response of the ticket API

vars == <<settings, call, inbox, tickets, outbox, response>>

(***************************************************************************)
(* models/ticket.py: the enumerations                                      *)
(***************************************************************************)
IntentType ==
    {"billing", "technical_issue", "account_access", "cancellation",
     "feature_request", "general_inquiry"}

UrgencyLevel == {"low", "medium", "high", "critical"}

TicketStatus == {"pending_review", "approved", "sent", "escalated", "closed"}

\* A value that is no member of the enumeration: Python checks no argument
\* type at run time, and dict.get takes any hashable key.
UNMAPPED == "unmapped"

(***************************************************************************)
(* Fixed point                                                             *)
(***************************************************************************)
One == 20

Min(a, b) == IF a <= b THEN a ELSE b

RECURSIVE Sum(_)

\* The sum of a sequence of numbers
Sum(seq) == IF seq = <<>> THEN 0 ELSE Head(seq) + Sum(Tail(seq))

Max(a, b) == IF a >= b THEN a ELSE b

(***************************************************************************)
(* config.py: Settings                                                     *)
(***************************************************************************)
AUTO_SEND_THRESHOLD_DEFAULT == 16

ESCALATION_THRESHOLD_DEFAULT == 12

SLA_LOW_DEFAULT == 48

SLA_MEDIUM_DEFAULT == 24

SLA_HIGH_DEFAULT == 8

SLA_CRITICAL_DEFAULT == 2

DefaultSettings ==
    [auto_send_threshold |-> AUTO_SEND_THRESHOLD_DEFAULT,
     escalation_threshold |-> ESCALATION_THRESHOLD_DEFAULT,
     sla_low |-> SLA_LOW_DEFAULT,
     sla_medium |-> SLA_MEDIUM_DEFAULT,
     sla_high |-> SLA_HIGH_DEFAULT,
     sla_critical |-> SLA_CRITICAL_DEFAULT]

\* The SLA settings an operator may put in the environment: the defaults,
\* or every level retuned to SlaRetune times its default.
SlaRetune == 3

SlaTables ==
    {[sla_low |-> SLA_LOW_DEFAULT * k, sla_medium |-> SLA_MEDIUM_DEFAULT * k,
      sla_high |-> SLA_HIGH_DEFAULT * k, sla_critical |-> SLA_CRITICAL_DEFAULT * k]
        : k \in {1, SlaRetune}}

\* Every configuration with both thresholds in [0.0, 1.0].
AllSettings ==
    {[auto_send_threshold |-> a, escalation_threshold |-> e,
      sla_low |-> s.sla_low, sla_medium |-> s.sla_medium,
      sla_high |-> s.sla_high, sla_critical |-> s.sla_critical]
        : a \in 0..One, e \in 0..One, s \in SlaTables}

(***************************************************************************)
(* services/router.py: RouterService                                       *)
(***************************************************************************)
INTENT_TEAM_MAP ==
    [i \in IntentType |->
        CASE i = "billing" -> "Finance Team"
          [] i = "technical_issue" -> "Tech Support"
          [] i = "account_access" -> "Account Services"
          [] i = "cancellation" -> "Retention Team"
          [] i = "feature_request" -> "Product Team"
          [] i = "general_inquiry" -> "General Support"]

SLA_HOURS ==
    [u \in UrgencyLevel |->
        CASE u = "low" -> 48
          [] u = "medium" -> 24
          [] u = "high" -> 8
          [] u = "critical" -> 2]

ESCALATED_SUFFIX == " - ESCALATED"

\* Number of " - ESCALATED" pieces in a team name
SuffixCount(team) == Cardinality({k \in DOMAIN team : team[k] = ESCALATED_SUFFIX})

\* dict.get(key, default)
DictGet(map, key, default) == IF key \in DOMAIN map THEN map[key] ELSE default

route_ticket_suffix_on_high(intent, urgency) ==
    LET team == <<DictGet(INTENT_TEAM_MAP, intent, "General Support")>>
    IN  IF urgency \in {"critical", "high"}
        THEN team \o <<ESCALATED_SUFFIX>>
        ELSE team

route_ticket_default_tech(intent, urgency) ==
    LET team == <<DictGet(INTENT_TEAM_MAP, intent, "Tech Support")>>
    IN  IF urgency = "critical"
        THEN team \o <<ESCALATED_SUFFIX>>
        ELSE team

route_ticket(intent, urgency) ==
    LET team == <<DictGet(INTENT_TEAM_MAP, intent, "General Support")>>
    IN  IF urgency = "critical"
        THEN team \o <<ESCALATED_SUFFIX>>
        ELSE team

get_sla_hours_default_low(urgency) == DictGet(SLA_HOURS, urgency, 48)

get_sla_hours(urgency) == DictGet(SLA_HOURS, urgency, 24)

should_auto_send_critical_only(confidence, urgency) ==
    IF urgency = "critical"
    THEN FALSE
    ELSE confidence >= settings.auto_send_threshold

should_auto_send_strict(confidence, urgency) ==
    IF urgency \in {"critical", "high"}
    THEN FALSE
    ELSE confidence > settings.auto_send_threshold

should_auto_send(confidence, urgency) ==
    IF urgency \in {"critical", "high"}
    THEN FALSE
    ELSE IF confidence >= settings.auto_send_threshold
         THEN TRUE
         ELSE FALSE

should_escalate_no_critical(confidence, urgency) ==
    confidence < settings.escalation_threshold

should_escalate_inclusive(confidence, urgency) ==
    IF urgency = "critical"
    THEN TRUE
    ELSE confidence <= settings.escalation_threshold

should_escalate(confidence, urgency) ==
    IF urgency = "critical"
    THEN TRUE
    ELSE IF confidence < settings.escalation_threshold
         THEN TRUE
         ELSE FALSE

(***************************************************************************)
(* Optional values (None or a value) and the HTTP responses                *)
(***************************************************************************)
None == <<>>

Some(v) == <<v>>

NULL == "null"

NoResponse == [op |-> "none", code |-> 0, processed |-> 0]

(***************************************************************************)
(* Evaluations of the router's functions.  call records the last one: the  *)
(* arguments and what came back.  The functions keep no state, so one     *)
(* evaluation at a time is recorded and dropped before the next.           *)
(***************************************************************************)
\* How far outside [0.0, 1.0] an argument of the policies may lie.
ConfSlack == 2

ConfidenceArgs == (0 - ConfSlack)..(One + ConfSlack)

IntentArgs == IntentType \cup {UNMAPPED}

UrgencyArgs == UrgencyLevel \cup {UNMAPPED}

NoCall ==
    [op |-> "none", intent |-> "", urgency |-> "", confidence |-> 0,
     auto_send |-> FALSE, escalate |-> FALSE, team |-> <<>>, hours |-> 0]

\* (variant: an evaluation that leaves something behind, here an escalation
\* threshold lowered to 0.0 for the evaluations that follow)
CallPolicies_stateful(confidence, urgency) ==
    /\ call.op = "none"
    /\ call' = [NoCall EXCEPT !.op = "policies",
                              !.confidence = confidence,
                              !.urgency = urgency,
                              !.auto_send = should_auto_send(confidence, urgency),
                              !.escalate = should_escalate(confidence, urgency)]
    /\ settings' = [settings EXCEPT !.escalation_threshold = 0]
    /\ UNCHANGED <<inbox, tickets, outbox, response>>

\* should_auto_send and should_escalate on the same (confidence, urgency)
CallPolicies(confidence, urgency) ==
    /\ call.op = "none"
    /\ call' = [NoCall EXCEPT !.op = "policies",
                              !.confidence = confidence,
                              !.urgency = urgency,
                              !.auto_send = should_auto_send(confidence, urgency),
                              !.escalate = should_escalate(confidence, urgency)]
    /\ UNCHANGED <<settings, inbox, tickets, outbox, response>>

CallRouteTicket(intent, urgency) ==
    /\ call.op = "none"
    /\ call' = [NoCall EXCEPT !.op = "route_ticket",
                              !.intent = intent,
                              !.urgency = urgency,
                              !.team = route_ticket(intent, urgency)]
    /\ UNCHANGED <<settings, inbox, tickets, outbox, response>>

CallGetSlaHours(urgency) ==
    /\ call.op = "none"
    /\ call' = [NoCall EXCEPT !.op = "get_sla_hours",
                              !.urgency = urgency,
                              !.hours = get_sla_hours(urgency)]
    /\ UNCHANGED <<settings, inbox, tickets, outbox, response>>

\* The caller has read the result and drops it.
Return ==
    /\ call.op # "none"
    /\ call' = NoCall
    /\ UNCHANGED <<settings, inbox, tickets, outbox, response>>

InitRouter ==
    /\ settings \in AllSettings
    /\ call = NoCall
    /\ inbox = 0
    /\ tickets = <<>>
    /\ outbox = <<>>
    /\ response = NoResponse

NextRouter ==
    \/ \E c \in ConfidenceArgs, u \in UrgencyLevel : CallPolicies(c, u)
    \/ \E i \in IntentArgs, u \in UrgencyLevel : CallRouteTicket(i, u)
    \/ \E u \in UrgencyArgs : CallGetSlaHours(u)
    \/ Return

SpecRouter == InitRouter /\ [][NextRouter]_vars

(***************************************************************************)
(* schemas/ticket.py and services/classifier.py: the classifier's answer   *)
(* is the model's JSON, validated into a ClassificationResult.             *)
(***************************************************************************)
\* What the language model may answer: an API or JSON error (ok = FALSE),
\* or a JSON object whose fields need not be valid.
ClassifierError == [ok |-> FALSE, intent |-> "", urgency |-> "", confidence |-> 0]

Answer(intent, urgency, confidence) ==
    [ok |-> TRUE, intent |-> intent, urgency |-> urgency, confidence |-> confidence]

\* Confidences 0.5 and 0.9: one below and one above the default escalation
\* threshold and the base reply confidence.
ClassifierResponses ==
    {ClassifierError,
     Answer(UNMAPPED, "medium", One - 2),
     Answer("billing", "medium", One + 1),
     Answer("billing", "medium", One \div 2),
     Answer("billing", "medium", One - 2),
     Answer("technical_issue", "critical", One - 2)}

\* (variant: the confidence of the answer is not range-checked)
classify_ticket_unvalidated(llm) ==
    IF /\ llm.ok
       /\ llm.intent \in IntentType
       /\ llm.urgency \in UrgencyLevel
    THEN llm
    ELSE ClassifierError

\* ClassificationResult(...): intent and urgency are members of the enums and
\* confidence is Field(ge=0.0, le=1.0); anything else raises, and
\* classify_ticket re-raises it as "Classification error".
classify_ticket(llm) ==
    IF /\ llm.ok
       /\ llm.intent \in IntentType
       /\ llm.urgency \in UrgencyLevel
       /\ 0 <= llm.confidence /\ llm.confidence <= One
    THEN llm
    ELSE ClassifierError

(***************************************************************************)
(* services/reply_generator.py                                             *)
(* A reply text is known by its length in characters and by the number of  *)
(* the seven unsafe phrases that occur in it.                              *)
(***************************************************************************)
BASE_CONFIDENCE == 17

SHORT_REPLY_PENALTY == 4

SHORT_REPLY_LENGTH == 50

UNSAFE_PHRASE_PENALTY == 3

CRITICAL_PENALTY == 2

unsafe_phrases ==
    <<"refund", "guarantee", "promise", "will fix", "by tomorrow",
      "compensation", "credit">>

calculate_confidence(reply, intent, urgency) ==
    LET c1 == IF reply.len < SHORT_REPLY_LENGTH
              THEN BASE_CONFIDENCE - SHORT_REPLY_PENALTY
              ELSE BASE_CONFIDENCE
        c2 == c1 - UNSAFE_PHRASE_PENALTY * reply.unsafe
        c3 == IF urgency = "critical" THEN c2 - CRITICAL_PENALTY ELSE c2
    IN  Max(0, Min(One, c3))

\* The texts the language model may write: the empty text (after strip()),
\* a long text with no unsafe phrase, and a short text with five of the
\* unsafe phrases ("refund credit promise guarantee will fix"), whose
\* penalties take the heuristic below 0.0.
EmptyText == [len |-> 0, unsafe |-> 0]

LongSafeText == [len |-> 2 * SHORT_REPLY_LENGTH, unsafe |-> 0]

ShortUnsafeText == [len |-> SHORT_REPLY_LENGTH - 10, unsafe |-> 5]

ReplyError == [ok |-> FALSE, reply |-> EmptyText, confidence |-> 0]

NoReplyCall == [ok |-> FALSE, text |-> EmptyText]

ReplyResponses ==
    {NoReplyCall,
     [ok |-> TRUE, text |-> EmptyText],
     [ok |-> TRUE, text |-> LongSafeText],
     [ok |-> TRUE, text |-> ShortUnsafeText]}

\* One processing of a ticket: the classifier's answer and, when it is
\* valid, the reply model's answer (the reply model is not called after a
\* failed classification).
LlmRuns ==
    {<<c, r>> : c \in {x \in ClassifierResponses : classify_ticket(x).ok},
                r \in ReplyResponses}
    \cup {<<c, NoReplyCall>> : c \in {x \in ClassifierResponses : ~classify_ticket(x).ok}}

\* ReplyResult(reply, confidence) validates confidence in [0.0, 1.0]; a
\* failure of the API call or of the validation is re-raised as
\* "Reply generation error".
generate_reply(llm, intent, urgency) ==
    LET confidence == calculate_confidence(llm.text, intent, urgency)
    IN  IF llm.ok /\ 0 <= confidence /\ confidence <= One
        THEN [ok |-> TRUE, reply |-> llm.text, confidence |-> confidence]
        ELSE ReplyError

(***************************************************************************)
(* models/ticket.py: Ticket.  email is the Gmail message the ticket was    *)
(* made from (0: none, the ticket came through POST /api/tickets).         *)
(* classification_confidence and reply_confidence are history fields: the  *)
(* confidences the two services returned while the ticket was processed.   *)
(***************************************************************************)
NewTicket(email) ==
    [email |-> email,
     intent |-> NULL,
     urgency |-> NULL,
     confidence_score |-> None,
     ai_reply |-> None,
     final_reply |-> None,
     assigned_team |-> None,
     status |-> "pending_review",
     resolved_at |-> NULL,
     classification_confidence |-> None,
     reply_confidence |-> None]

(***************************************************************************)
(* api/tickets.py: the body of the try block of create_manual_ticket and   *)
(* of the ingest loop; a raise leaves the fields assigned so far.          *)
(***************************************************************************)
process_manual(ticket, cls_llm, reply_llm) ==
    LET classification == classify_ticket(cls_llm)
        reply_result == generate_reply(reply_llm, classification.intent,
                                       classification.urgency)
        classified == [ticket EXCEPT
                          !.intent = classification.intent,
                          !.urgency = classification.urgency,
                          !.confidence_score = Some(classification.confidence),
                          !.classification_confidence = Some(classification.confidence)]
    IN  IF ~classification.ok
        THEN [ticket EXCEPT !.status = "escalated"]
        ELSE IF ~reply_result.ok
        THEN [classified EXCEPT !.status = "escalated"]
        ELSE [classified EXCEPT
                 !.ai_reply = Some(reply_result.reply),
                 !.reply_confidence = Some(reply_result.confidence),
                 !.assigned_team = route_ticket(classification.intent,
                                                classification.urgency)]

\* (variant: a failed classification is swallowed and the ticket is left
\* as it was created)
process_ingest_failure_unmarked(ticket, cls_llm, reply_llm) ==
    IF ~classify_ticket(cls_llm).ok
    THEN ticket
    ELSE process_manual(ticket, cls_llm, reply_llm)

\* (variant: the ticket is routed as soon as it is classified, before the
\* reply is generated)
process_ingest_routes_early(ticket, cls_llm, reply_llm) ==
    LET classification == classify_ticket(cls_llm)
        reply_result == generate_reply(reply_llm, classification.intent,
                                       classification.urgency)
        classified == [ticket EXCEPT
                          !.intent = classification.intent,
                          !.urgency = classification.urgency,
                          !.confidence_score = Some(classification.confidence),
                          !.classification_confidence = Some(classification.confidence),
                          !.assigned_team = route_ticket(classification.intent,
                                                         classification.urgency)]
        effective == Min(classification.confidence, reply_result.confidence)
    IN  IF ~classification.ok
        THEN [ticket EXCEPT !.status = "escalated"]
        ELSE IF ~reply_result.ok
        THEN [classified EXCEPT !.status = "escalated"]
        ELSE [classified EXCEPT
                 !.ai_reply = Some(reply_result.reply),
                 !.reply_confidence = Some(reply_result.confidence),
                 !.confidence_score = Some(effective),
                 !.status = IF should_escalate(effective, classification.urgency)
                            THEN "escalated"
                            ELSE @]

process_ingest(ticket, cls_llm, reply_llm) ==
    LET classification == classify_ticket(cls_llm)
        reply_result == generate_reply(reply_llm, classification.intent,
                                       classification.urgency)
        classified == [ticket EXCEPT
                          !.intent = classification.intent,
                          !.urgency = classification.urgency,
                          !.confidence_score = Some(classification.confidence),
                          !.classification_confidence = Some(classification.confidence)]
        effective == Min(classification.confidence, reply_result.confidence)
    IN  IF ~classification.ok
        THEN [ticket EXCEPT !.status = "escalated"]
        ELSE IF ~reply_result.ok
        THEN [classified EXCEPT !.status = "escalated"]
        ELSE [classified EXCEPT
                 !.ai_reply = Some(reply_result.reply),
                 !.reply_confidence = Some(reply_result.confidence),
                 !.confidence_score = Some(effective),
                 !.assigned_team = route_ticket(classification.intent,
                                                classification.urgency),
                 !.status = IF should_escalate(effective, classification.urgency)
                            THEN "escalated"
                            ELSE @]

(***************************************************************************)
(* api/tickets.py: the endpoints.  Each handler is an async def with no    *)
(* await in it, so it runs to its end on the event loop: one action each.  *)
(***************************************************************************)
\* (variant: a creation that sends the reply itself when the auto-send
\* policy allows it)
create_manual_ticket_auto_send(cls_llm, reply_llm) ==
    LET ticket == process_manual(NewTicket(0), cls_llm, reply_llm)
        auto == /\ ticket.reply_confidence # None
                /\ should_auto_send(ticket.confidence_score[1], ticket.urgency)
    IN  /\ tickets' = Append(tickets,
                             IF auto
                             THEN [ticket EXCEPT !.final_reply = ticket.ai_reply,
                                                 !.status = "sent",
                                                 !.resolved_at = "utcnow"]
                             ELSE ticket)
        /\ outbox' = Append(outbox, IF auto THEN 1 ELSE 0)
        /\ response' = [op |-> "create", code |-> 200, processed |-> 0]
        /\ UNCHANGED <<settings, call, inbox>>

\* POST /api/tickets
create_manual_ticket(cls_llm, reply_llm) ==
    /\ tickets' = Append(tickets, process_manual(NewTicket(0), cls_llm, reply_llm))
    /\ outbox' = Append(outbox, 0)
    /\ response' = [op |-> "create", code |-> 200, processed |-> 0]
    /\ UNCHANGED <<settings, call, inbox>>

\* gmail_service.fetch_unread_emails(max_results=10): the unread messages,
\* or [] when authentication or any API call fails.  Nothing marks a
\* message as read.
MAX_RESULTS == 10

fetch_unread_emails(api_ok) ==
    IF api_ok THEN [k \in 1..Min(inbox, MAX_RESULTS) |-> k] ELSE <<>>

\* POST /api/tickets/ingest
ingest_tickets(api_ok) ==
    LET ticket_data_list == fetch_unread_emails(api_ok)
        n == Len(ticket_data_list)
    IN  /\ IF n = 0
           THEN /\ response' = [op |-> "ingest", code |-> 200, processed |-> 0]
                /\ UNCHANGED <<tickets, outbox>>
           ELSE \E llm \in [1..n -> LlmRuns] :
                /\ tickets' = tickets \o
                       [k \in 1..n |->
                           process_ingest(NewTicket(ticket_data_list[k]),
                                          llm[k][1], llm[k][2])]
                /\ outbox' = outbox \o [k \in 1..n |-> 0]
                /\ response' = [op |-> "ingest", code |-> 200, processed |-> n]
        /\ UNCHANGED <<settings, call, inbox>>

\* Python truth of an optional text: None and "" are false
Truthy(text) == text # None /\ text[1].len > 0

\* The edited reply of an approve request: absent, empty, or a text of the
\* reviewer's own.
HumanText == [len |-> 3 * SHORT_REPLY_LENGTH, unsafe |-> 0]

EditedReplies == {None, Some(EmptyText), Some(HumanText)}

\* (variant: the AI reply is sent whatever the reviewer wrote)
approve_ticket_ignores_edit(ticket_id, edited_reply, send_ok) ==
    /\ IF ticket_id \notin DOMAIN tickets
       THEN /\ response' = [op |-> "approve", code |-> 404, processed |-> 0]
            /\ UNCHANGED <<tickets, outbox>>
       ELSE LET ticket == tickets[ticket_id]
                final_reply == IF Truthy(ticket.ai_reply)
                               THEN ticket.ai_reply
                               ELSE edited_reply
            IN  IF ~Truthy(final_reply)
                THEN /\ response' = [op |-> "approve", code |-> 400, processed |-> 0]
                     /\ UNCHANGED <<tickets, outbox>>
                ELSE IF ~send_ok
                THEN /\ response' = [op |-> "approve", code |-> 500, processed |-> 0]
                     /\ UNCHANGED <<tickets, outbox>>
                ELSE /\ outbox' = [outbox EXCEPT ![ticket_id] = @ + 1]
                     /\ tickets' = [tickets EXCEPT ![ticket_id] =
                                       [@ EXCEPT !.final_reply = final_reply,
                                                 !.status = "sent",
                                                 !.resolved_at = "utcnow"]]
                     /\ response' = [op |-> "approve", code |-> 200, processed |-> 0]
    /\ UNCHANGED <<settings, call, inbox>>

\* (variant: the ticket is updated before the email is sent, so a failed
\* send leaves it marked as sent)
approve_ticket_updates_before_send(ticket_id, edited_reply, send_ok) ==
    /\ IF ticket_id \notin DOMAIN tickets
       THEN /\ response' = [op |-> "approve", code |-> 404, processed |-> 0]
            /\ UNCHANGED <<tickets, outbox>>
       ELSE LET ticket == tickets[ticket_id]
                final_reply == IF Truthy(edited_reply)
                               THEN edited_reply
                               ELSE ticket.ai_reply
            IN  IF ~Truthy(final_reply)
                THEN /\ response' = [op |-> "approve", code |-> 400, processed |-> 0]
                     /\ UNCHANGED <<tickets, outbox>>
                ELSE /\ tickets' = [tickets EXCEPT ![ticket_id] =
                                       [@ EXCEPT !.final_reply = final_reply,
                                                 !.status = "sent",
                                                 !.resolved_at = "utcnow"]]
                     /\ outbox' = [outbox EXCEPT ![ticket_id] =
                                      IF send_ok THEN @ + 1 ELSE @]
                     /\ response' = [op |-> "approve",
                                     code |-> IF send_ok THEN 200 ELSE 500,
                                     processed |-> 0]
    /\ UNCHANGED <<settings, call, inbox>>

\* PUT /api/tickets/{ticket_id}/approve
approve_ticket(ticket_id, edited_reply, send_ok) ==
    /\ IF ticket_id \notin DOMAIN tickets
       THEN /\ response' = [op |-> "approve", code |-> 404, processed |-> 0]
            /\ UNCHANGED <<tickets, outbox>>
       ELSE LET ticket == tickets[ticket_id]
                final_reply == IF Truthy(edited_reply)
                               THEN edited_reply
                               ELSE ticket.ai_reply
            IN  IF ~Truthy(final_reply)
                THEN /\ response' = [op |-> "approve", code |-> 400, processed |-> 0]
                     /\ UNCHANGED <<tickets, outbox>>
                ELSE IF ~send_ok
                THEN /\ response' = [op |-> "approve", code |-> 500, processed |-> 0]
                     /\ UNCHANGED <<tickets, outbox>>
                ELSE /\ outbox' = [outbox EXCEPT ![ticket_id] = @ + 1]
                     /\ tickets' = [tickets EXCEPT ![ticket_id] =
                                       [@ EXCEPT !.final_reply = final_reply,
                                                 !.status = "sent",
                                                 !.resolved_at = "utcnow"]]
                     /\ response' = [op |-> "approve", code |-> 200, processed |-> 0]
    /\ UNCHANGED <<settings, call, inbox>>

\* f"{ticket.assigned_team}": the text of a team name, "None" for None
Format(team) == IF team = None THEN <<"None">> ELSE team

\* PUT /api/tickets/{ticket_id}/escalate
escalate_ticket(ticket_id) ==
    /\ IF ticket_id \notin DOMAIN tickets
       THEN /\ response' = [op |-> "escalate", code |-> 404, processed |-> 0]
            /\ UNCHANGED tickets
       ELSE /\ tickets' = [tickets EXCEPT ![ticket_id] =
                              [@ EXCEPT !.status = "escalated",
                                        !.assigned_team =
                                            Format(@) \o <<ESCALATED_SUFFIX>>]]
            /\ response' = [op |-> "escalate", code |-> 200, processed |-> 0]
    /\ UNCHANGED <<settings, call, inbox, outbox>>

\* A customer's message reaches the support inbox.
EmailArrives ==
    /\ inbox' = inbox + 1
    /\ UNCHANGED <<settings, call, tickets, outbox, response>>

(***************************************************************************)
(* The program and its environment.  The bounds cap what the environment  *)
(* does: the messages that arrive, the tickets requested, the replies      *)
(* sent and the suffixes appended.                                         *)
(***************************************************************************)
MaxTickets == 1

MaxEmails == 1

MaxSends == 2

MaxSuffixes == 2

MaxBatch == 2

Init ==
    /\ settings = DefaultSettings
    /\ call = NoCall
    /\ inbox = 0
    /\ tickets = <<>>
    /\ outbox = <<>>
    /\ response = NoResponse

TicketIds == 1..(Len(tickets) + 1)

TotalSuffixes == Sum([k \in DOMAIN tickets |-> SuffixCount(tickets[k].assigned_team)])

Next ==
    \/ /\ inbox < MaxEmails
       /\ EmailArrives
    \/ /\ Len(tickets) < MaxTickets
       /\ \E llm \in LlmRuns : create_manual_ticket(llm[1], llm[2])
    \/ /\ Len(tickets) + Min(inbox, MAX_RESULTS) <= MaxTickets
       /\ \E api_ok \in BOOLEAN : ingest_tickets(api_ok)
    \/ /\ Sum(outbox) < MaxSends
       /\ \E id \in TicketIds, e \in EditedReplies, send_ok \in BOOLEAN :
             approve_ticket(id, e, send_ok)
    \/ /\ TotalSuffixes < MaxSuffixes
       /\ \E id \in TicketIds : escalate_ticket(id)

Spec == Init /\ [][Next]_vars

\* The two processing paths alone, with room for a batch of MaxBatch
\* messages and for a second ingest of the same message.
NextIngest ==
    \/ /\ inbox < MaxBatch
       /\ EmailArrives
    \/ /\ Len(tickets) < MaxBatch
       /\ \E llm \in LlmRuns : create_manual_ticket(llm[1], llm[2])
    \/ /\ Len(tickets) + Min(inbox, MAX_RESULTS) <= MaxBatch
       /\ \E api_ok \in BOOLEAN : ingest_tickets(api_ok)

SpecIngest == Init /\ [][NextIngest]_vars

(***************************************************************************)
(* Properties of the router, checked under SpecRouter                      *)
(***************************************************************************)
InUnit(c) == 0 <= c /\ c <= One

PolicyCall == call.op = "policies"

\* C1 as stated: for every confidence in [0,1], every urgency and every pair
\* of thresholds in [0,1], should_auto_send and should_escalate on the same
\* (confidence, urgency) are never both true.
C1_NeverBothAnyThresholds ==
    (PolicyCall /\ InUnit(call.confidence))
        => ~(call.auto_send /\ call.escalate)

\* C1 amended: when the escalation threshold is not above the auto-send
\* threshold, should_auto_send and should_escalate on the same
\* (confidence, urgency) with confidence in [0,1] are never both true.
C1_NeverBothOrderedThresholds ==
    (/\ PolicyCall
     /\ InUnit(call.confidence)
     /\ settings.escalation_threshold <= settings.auto_send_threshold)
        => ~(call.auto_send /\ call.escalate)

\* An auto-send verdict at equal thresholds, with the confidence on them.
C1_Witness ==
    /\ PolicyCall
    /\ settings.escalation_threshold = settings.auto_send_threshold
    /\ call.confidence = settings.auto_send_threshold
    /\ call.urgency = "low"
    /\ call.auto_send
    /\ ~call.escalate

\* C2: should_auto_send is false whenever urgency is high or critical, for
\* every confidence and every auto-send threshold.
C2_NoAutoSendHighCritical ==
    (PolicyCall /\ call.urgency \in {"high", "critical"}) => ~call.auto_send

\* High urgency, confidence 1.0, threshold 0.0: still no auto-send.
C2_Witness ==
    /\ PolicyCall
    /\ call.urgency = "high"
    /\ call.confidence = One
    /\ settings.auto_send_threshold = 0
    /\ ~call.auto_send

\* C3: for urgency low or medium, should_auto_send is true exactly when
\* confidence >= the auto-send threshold (boundary included).
C3_AutoSendIffAtLeastThreshold ==
    (PolicyCall /\ call.urgency \in {"low", "medium"})
        => (call.auto_send <=> call.confidence >= settings.auto_send_threshold)

\* Confidence exactly on the default threshold auto-sends.
C3_Witness ==
    /\ PolicyCall
    /\ call.urgency = "low"
    /\ settings.auto_send_threshold = AUTO_SEND_THRESHOLD_DEFAULT
    /\ call.confidence = settings.auto_send_threshold
    /\ call.auto_send

\* C4: should_escalate is true whenever urgency is critical, for every
\* confidence and every escalation threshold.
C4_CriticalAlwaysEscalates ==
    (PolicyCall /\ call.urgency = "critical") => call.escalate

\* Critical, confidence 1.0, threshold 0.0: escalated.
C4_Witness ==
    /\ PolicyCall
    /\ call.urgency = "critical"
    /\ call.confidence = One
    /\ settings.escalation_threshold = 0
    /\ call.escalate

\* C5: for urgency low, medium or high, should_escalate is true exactly when
\* confidence < the escalation threshold (boundary excluded).
C5_EscalateIffBelowThreshold ==
    (PolicyCall /\ call.urgency \in {"low", "medium", "high"})
        => (call.escalate <=> call.confidence < settings.escalation_threshold)

\* Confidence exactly on the default threshold does not escalate.
C5_Witness ==
    /\ PolicyCall
    /\ call.urgency = "medium"
    /\ settings.escalation_threshold = ESCALATION_THRESHOLD_DEFAULT
    /\ call.confidence = settings.escalation_threshold
    /\ ~call.escalate

\* C6: route_ticket returns the mapped team name followed by the suffix
\* " - ESCALATED" exactly once if urgency is critical, and the bare team
\* name for low, medium and high.
C6_SuffixIffCritical ==
    call.op = "route_ticket"
        => /\ Len(call.team) >= 1
           /\ call.team[1] = DictGet(INTENT_TEAM_MAP, call.intent, "General Support")
           /\ call.team[1] # ESCALATED_SUFFIX
           /\ Len(call.team) = 1 + SuffixCount(call.team)
           /\ SuffixCount(call.team) = (IF call.urgency = "critical" THEN 1 ELSE 0)

\* A high-urgency ticket routed with no suffix.
C6_Witness ==
    /\ call.op = "route_ticket"
    /\ call.urgency = "high"
    /\ call.team = <<"Tech Support">>

\* C7: the intent-to-team lookup is total: the six intents map to their
\* teams and any other intent yields "General Support", with the suffix
\* when (and only when) urgency is critical.
C7_TeamTable ==
    call.op = "route_ticket"
        => LET name ==
                   CASE call.intent = "billing" -> "Finance Team"
                     [] call.intent = "technical_issue" -> "Tech Support"
                     [] call.intent = "account_access" -> "Account Services"
                     [] call.intent = "cancellation" -> "Retention Team"
                     [] call.intent = "feature_request" -> "Product Team"
                     [] call.intent = "general_inquiry" -> "General Support"
                     [] OTHER -> "General Support"
           IN  call.team = (IF call.urgency = "critical"
                            THEN <<name, " - ESCALATED">>
                            ELSE <<name>>)

\* An intent outside the map, critical: "General Support - ESCALATED".
C7_Witness ==
    /\ call.op = "route_ticket"
    /\ call.intent \notin IntentType
    /\ call.urgency = "critical"
    /\ call.team = <<"General Support", " - ESCALATED">>

\* C8: with the default configuration get_sla_hours returns 48, 24, 8 and 2
\* for low, medium, high and critical, and 24 for any other urgency.
C8_DefaultSlaHours ==
    (/\ call.op = "get_sla_hours"
     /\ settings.sla_low = SLA_LOW_DEFAULT
     /\ settings.sla_medium = SLA_MEDIUM_DEFAULT
     /\ settings.sla_high = SLA_HIGH_DEFAULT
     /\ settings.sla_critical = SLA_CRITICAL_DEFAULT)
        => call.hours = (CASE call.urgency = "low" -> 48
                           [] call.urgency = "medium" -> 24
                           [] call.urgency = "high" -> 8
                           [] call.urgency = "critical" -> 2
                           [] OTHER -> 24)

\* An urgency outside the table under the default configuration: 24 hours.
C8_Witness ==
    /\ call.op = "get_sla_hours"
    /\ settings.sla_low = SLA_LOW_DEFAULT
    /\ settings.sla_critical = SLA_CRITICAL_DEFAULT
    /\ call.urgency \notin UrgencyLevel
    /\ call.hours = 24

\* The configured SLA table
ConfiguredSla(urgency) ==
    CASE urgency = "low" -> settings.sla_low
      [] urgency = "medium" -> settings.sla_medium
      [] urgency = "high" -> settings.sla_high
      [] urgency = "critical" -> settings.sla_critical

\* C9: for every urgency level and every configured sla_low, sla_medium,
\* sla_high and sla_critical, get_sla_hours returns the configured value
\* of that level.
C9_SlaFollowsConfiguration ==
    (call.op = "get_sla_hours" /\ call.urgency \in UrgencyLevel)
        => call.hours = ConfiguredSla(call.urgency)

(***************************************************************************)
(* Properties of ticket processing, checked under Spec                     *)
(***************************************************************************)
BothSucceeded(ticket) ==
    ticket.classification_confidence # None /\ ticket.reply_confidence # None

\* C10: on every processing path (manual creation and ingest) on which
\* classification and reply generation both succeed, the confidence recorded
\* on the ticket is min(classification confidence, reply confidence).
C10_RecordedConfidenceIsMin ==
    \A k \in DOMAIN tickets :
        BothSucceeded(tickets[k])
            => tickets[k].confidence_score =
                   Some(Min(tickets[k].classification_confidence[1],
                            tickets[k].reply_confidence[1]))

\* C11: every stored ticket's confidence_score is unset or lies in
\* [0.0, 1.0], whatever the classifier answered and whatever the reply
\* heuristic (base minus length, unsafe-phrase and critical penalties) gave.
C11_ConfidenceScoreInUnit ==
    \A k \in DOMAIN tickets :
        \/ tickets[k].confidence_score = None
        \/ InUnit(tickets[k].confidence_score[1])

\* An ingested ticket whose reply heuristic went below 0.0 before the clamp
\* and which stores 0.0.
C11_Witness ==
    \E k \in DOMAIN tickets :
        /\ tickets[k].email # 0
        /\ tickets[k].ai_reply = Some(ShortUnsafeText)
        /\ BASE_CONFIDENCE - SHORT_REPLY_PENALTY
               - UNSAFE_PHRASE_PENALTY * ShortUnsafeText.unsafe < 0
        /\ tickets[k].reply_confidence = Some(0)
        /\ tickets[k].confidence_score = Some(0)

\* C12: for a confidence outside [0.0, 1.0] should_auto_send and
\* should_escalate return what they return for the confidence clamped to
\* [0.0, 1.0], for every urgency and every threshold in [0.0, 1.0]
\* (0.0 and 1.0 included).
C12_OutOfRangeAsClamped ==
    (PolicyCall /\ ~InUnit(call.confidence))
        => LET clamped == Max(0, Min(One, call.confidence))
           IN  /\ call.auto_send = should_auto_send(clamped, call.urgency)
               /\ call.escalate = should_escalate(clamped, call.urgency)

\* C13: with the default thresholds (auto-send 0.8, escalation 0.6) and
\* urgency low or medium, the verdict for the effective confidence e (the
\* minimum of the two confidences, any value of [0.0, 1.0]) lies in exactly
\* one of three bands: e >= 0.8 gives no escalation and auto-send,
\* 0.6 <= e < 0.8 gives neither, e < 0.6 gives escalation and no auto-send;
\* and the team is the mapped team without the suffix.
C13_DefaultBands ==
    /\ (/\ PolicyCall
        /\ settings.auto_send_threshold = AUTO_SEND_THRESHOLD_DEFAULT
        /\ settings.escalation_threshold = ESCALATION_THRESHOLD_DEFAULT
        /\ call.urgency \in {"low", "medium"}
        /\ InUnit(call.confidence))
           => LET e == call.confidence
              IN  /\ (5 * e >= 4 * One) => (~call.escalate /\ call.auto_send)
                  /\ (5 * e >= 3 * One /\ 5 * e < 4 * One)
                         => (~call.escalate /\ ~call.auto_send)
                  /\ (5 * e < 3 * One) => (call.escalate /\ ~call.auto_send)
    /\ (call.op = "route_ticket" /\ call.urgency \in {"low", "medium"})
           => \E name \in {"Finance Team", "Tech Support", "Account Services",
                           "Retention Team", "Product Team", "General Support"} :
                  call.team = <<name>>

\* Scenario A: classification 0.9 and reply 0.85 at low urgency under the
\* default thresholds: effective confidence 0.85, auto-send, no escalation.
C13_Witness ==
    /\ PolicyCall
    /\ settings.auto_send_threshold = AUTO_SEND_THRESHOLD_DEFAULT
    /\ settings.escalation_threshold = ESCALATION_THRESHOLD_DEFAULT
    /\ call.urgency = "low"
    /\ call.confidence = Min(One - 2, BASE_CONFIDENCE)
    /\ call.auto_send
    /\ ~call.escalate

(***************************************************************************)
(* Properties of the endpoints, checked under Spec and SpecIngest          *)
(***************************************************************************)
\* C14: every ticket that manual creation or ingest stores after a
\* successful classification and reply generation, and for which the
\* escalation policy is true on (effective confidence, urgency) -- in
\* particular every critical one -- is stored with status ESCALATED, and no
\* reply has been sent for it.
C14_EscalationPolicyApplied ==
    [][\A k \in DOMAIN tickets' :
          (/\ k \notin DOMAIN tickets
           /\ BothSucceeded(tickets'[k])
           /\ should_escalate(Min(tickets'[k].classification_confidence[1],
                                  tickets'[k].reply_confidence[1]),
                              tickets'[k].urgency))
              => (tickets'[k].status = "escalated" /\ outbox'[k] = 0)]_vars

C16_OnlyApproveSends ==
    [][/\ \A k \in DOMAIN outbox' :
             (IF k \in DOMAIN outbox THEN outbox'[k] # outbox[k] ELSE outbox'[k] # 0)
                 => (response'.op = "approve" /\ response'.code = 200)
       /\ \A k \in DOMAIN tickets' :
             (/\ tickets'[k].status = "sent"
              /\ (k \in DOMAIN tickets => tickets[k].status # "sent"))
                 => /\ response'.op = "approve"
                    /\ response'.code = 200
                    /\ k \in DOMAIN outbox
                    /\ outbox'[k] = outbox[k] + 1]_vars

\* A ticket made by manual creation with an auto-send verdict (confidence
\* 0.9, medium) that was sent by one approve request.
C16_Witness ==
    \E k \in DOMAIN tickets :
        /\ tickets[k].email = 0
        /\ BothSucceeded(tickets[k])
        /\ should_auto_send(tickets[k].confidence_score[1], tickets[k].urgency)
        /\ tickets[k].status = "sent"
        /\ outbox[k] = 1
        /\ response = [op |-> "approve", code |-> 200, processed |-> 0]

\* C17: on both processing paths a ticket is routed (and, on ingest, put to
\* the escalation policy) only after its classification and its reply
\* generation have both succeeded: a ticket stored after a failure of either
\* carries no assigned team and owes its status to the failure alone, and a
\* ticket stored after both succeeded carries the team route_ticket gives
\* for its intent and urgency.
C17_RoutedOnlyAfterBothSucceed ==
    [][\A k \in DOMAIN tickets' :
          k \notin DOMAIN tickets
              => IF BothSucceeded(tickets'[k])
                 THEN tickets'[k].assigned_team =
                          route_ticket(tickets'[k].intent, tickets'[k].urgency)
                 ELSE /\ tickets'[k].assigned_team = None
                      /\ tickets'[k].status = "escalated"]_vars

\* An ingested ticket that was classified but whose reply generation failed:
\* no team, escalated by the failure.
C17_Witness ==
    \E k \in DOMAIN tickets :
        /\ tickets[k].email # 0
        /\ tickets[k].classification_confidence # None
        /\ tickets[k].reply_confidence = None
        /\ tickets[k].assigned_team = None
        /\ tickets[k].status = "escalated"

\* C18: after any sequence of operations (creation or ingest, then any
\* number of escalate and approve requests) a ticket's assigned_team carries
\* the suffix " - ESCALATED" at most once, and never on a missing team.
C18_SuffixAtMostOnce ==
    \A k \in DOMAIN tickets :
        /\ SuffixCount(tickets[k].assigned_team) <= 1
        /\ (tickets[k].assigned_team # None
                => tickets[k].assigned_team[1] \notin {"None", ESCALATED_SUFFIX})

(***************************************************************************)
(* Properties of ingest, checked under SpecIngest                          *)
(***************************************************************************)
\* C19: across any sequence of ingest calls each unread email results in at
\* most one stored ticket.
C19_OneTicketPerEmail ==
    \A j, k \in DOMAIN tickets :
        (tickets[j].email # 0 /\ tickets[j].email = tickets[k].email) => j = k

\* C20: for every ticket, under any interleaving of approve requests
\* (repeated approvals of a ticket already SENT, or two approvals at the
\* same time), the reply email is sent at most once.
C20_ReplySentAtMostOnce ==
    \A k \in DOMAIN outbox : outbox[k] <= 1

\* C21: a rejected approve request -- the ticket does not exist (404), there
\* is no reply to send (400) or the email send fails (500) -- leaves every
\* ticket's status, final_reply and resolved_at as they were, and in the
\* first two cases sends no email.
C21_RejectedApproveChangesNothing ==
    [][(response'.op = "approve" /\ response'.code # 200)
          => /\ DOMAIN tickets' = DOMAIN tickets
             /\ \A k \in DOMAIN tickets :
                   /\ tickets'[k].status = tickets[k].status
                   /\ tickets'[k].final_reply = tickets[k].final_reply
                   /\ tickets'[k].resolved_at = tickets[k].resolved_at
             /\ (response'.code \in {404, 400} => outbox' = outbox)]_vars

\* An approve request on a ticket with a reply to send, rejected because
\* the email send failed: the ticket is still awaiting review.
C21_Witness ==
    /\ response = [op |-> "approve", code |-> 500, processed |-> 0]
    /\ \E k \in DOMAIN tickets :
          /\ Truthy(tickets[k].ai_reply)
          /\ tickets[k].status = "pending_review"
          /\ tickets[k].final_reply = None
          /\ tickets[k].resolved_at = NULL
          /\ outbox[k] = 0

\* C22: in every reachable state a ticket with status SENT has a non-empty
\* final_reply and a resolved_at timestamp; and the final_reply an accepted
\* approve request leaves on its ticket is the request's edited reply when
\* that is non-empty, and the ticket's AI reply otherwise.
C22_SentHasFinalReply ==
    /\ [](\A k \in DOMAIN tickets :
             tickets[k].status = "sent"
                 => /\ tickets[k].final_reply # None
                    /\ tickets[k].final_reply[1].len > 0
                    /\ tickets[k].resolved_at # NULL)
    /\ [][(response'.op = "approve" /\ response'.code = 200)
             => \A id \in DOMAIN tickets, e \in EditedReplies :
                    approve_ticket(id, e, TRUE)
                        => tickets'[id].final_reply =
                               (IF e \in {None, Some(EmptyText)}
                                THEN tickets[id].ai_reply
                                ELSE e)]_vars

\* A ticket sent with the reviewer's own text in place of the AI reply.
C22_Witness ==
    \E k \in DOMAIN tickets :
        /\ tickets[k].status = "sent"
        /\ Truthy(tickets[k].ai_reply)
        /\ tickets[k].final_reply = Some(HumanText)
        /\ tickets[k].resolved_at = "utcnow"
        /\ outbox[k] = 1

(***************************************************************************)
(* Failure handling of ingest, checked under SpecIngest                    *)
(***************************************************************************)
\* C23: an ingest stores one ticket for each email it fetched, in order,
\* and reports their number as the processed count; the ticket of an email
\* whose classification or reply generation failed is stored with status
\* ESCALATED and the emails after it are still processed; a ticket whose
\* processing succeeded and whose escalation policy is false is stored with
\* status PENDING_REVIEW.
C23_IngestStoresEveryEmail ==
    [][(response'.op = "ingest" /\ inbox' = inbox)
          => LET n == Len(tickets') - Len(tickets)
             IN  /\ response'.processed = n
                 /\ n \in {0, Min(inbox, MAX_RESULTS)}
                 /\ \A k \in 1..n :
                       LET ticket == tickets'[Len(tickets) + k]
                       IN  /\ ticket.email = k
                           /\ ~BothSucceeded(ticket) => ticket.status = "escalated"
                           /\ (/\ BothSucceeded(ticket)
                               /\ ~should_escalate(
                                      Min(ticket.classification_confidence[1],
                                          ticket.reply_confidence[1]),
                                      ticket.urgency))
                                  => ticket.status = "pending_review"]_vars

\* A batch of two emails: the first one's classification failed, the second
\* was processed with confidence 0.85 and awaits review.
C23_Witness ==
    /\ response = [op |-> "ingest", code |-> 200, processed |-> 2]
    /\ Len(tickets) = 2
    /\ tickets[1].email = 1
    /\ tickets[1].classification_confidence = None
    /\ tickets[1].status = "escalated"
    /\ tickets[2].email = 2
    /\ tickets[2].confidence_score = Some(BASE_CONFIDENCE)
    /\ tickets[2].status = "pending_review"

====
